---- MODULE Spec2Model ----
(***************************************************************************)
(* RollingBuffer<T> (src/src/buffer/buffer.rs): a Vec wrapper that         *)
(* overwrites its oldest slot once `size` elements are stored, or grows    *)
(* like a plain Vec when size is 0.  T is modelled as i32 restricted to    *)
(* 0..MaxVal, so T::default() is 0.                                        *)
(***************************************************************************)
EXTENDS Integers, Sequences, FiniteSets, TLC

\* ---- bounds of the model -------------------------------------------------
MaxSize == 3    \* largest capacity passed to new()
MaxCount == 6   \* largest number of pushes explored
MaxVal == 2     \* pushed values range over 0..MaxVal
MaxIndex == 8   \* get(i) is examined for i in 0..MaxIndex
MaxQueryCount == 4  \* calls of the queries are explored up to this count()

\* i32::default()
Default == 0

Values == 0..MaxVal
Indices == 0..MaxIndex

\* ---- Option<T> and the outcome of a failed index -------------------------
None == [tag |-> "None"]
Some(v) == [tag |-> "Some", val |-> v]
\* an index out of bounds or an arithmetic underflow aborts the call
Panic == [tag |-> "Panic"]

min(a, b) == IF a < b THEN a ELSE b

\* ---- state ---------------------------------------------------------------
VARIABLES
    size,          \* field size
    vec,           \* field vec, 1-based here: vec[k+1] is the source's vec[k]
    last_removed,  \* field last_removed: Option<T>
    count,         \* field count
    capacity,      \* history: the argument new() was called with
    pushed,        \* history: pushed[k+1] is the value given to the push of
                   \* logical index k, as last rewritten through last_mut()
    ret,           \* history: the latest query called since the buffer was
                   \* last mutated, with its argument and what it returned
    list           \* a second buffer, made by new(0) and given the same
                   \* pushes and writes: a record of the four fields

vars == <<size, vec, last_removed, count, capacity, pushed, ret, list>>

\* no query was called since the last mutation
NoRet == [op |-> "none", arg |-> 0, val |-> 0]
Returned(op, arg, val) == [op |-> op, arg |-> arg, val |-> val]

\* vec![T::default(); n]
Filled(n) == [k \in 1..n |-> Default]

\* Some(&self.vec[i]) with the bounds check of Vec indexing
At(i) == IF i < Len(vec) THEN Some(vec[i + 1]) ELSE Panic

\* ---- the operations on a buffer given as a record of its fields ----------
\* Some(&b.vec[i]) with the bounds check of Vec indexing
buf_at(b, i) == IF i < Len(b.vec) THEN Some(b.vec[i + 1]) ELSE Panic

buf_new(c) ==
    [size |-> c,
     vec |-> IF c > 0 THEN Filled(c) ELSE <<>>,
     last_removed |-> None,
     count |-> 0]

buf_push(b, value) ==
    IF b.size > 0
      THEN LET index == b.count % b.size IN
           [b EXCEPT !.last_removed = Some(b.vec[index + 1]),
                     !.vec[index + 1] = value,
                     !.count = @ + 1]
      ELSE [b EXCEPT !.vec = Append(@, value),
                     !.count = @ + 1]

buf_get(b, i) ==
    IF b.size > 0 THEN buf_at(b, i % b.size)
    ELSE IF i < Len(b.vec) THEN buf_at(b, i)
    ELSE None

buf_last(b) ==
    IF b.count = 0 THEN None
    ELSE IF b.size > 0 THEN buf_at(b, (b.count - 1) % b.size)
    ELSE IF Len(b.vec) = 0 THEN Panic
    ELSE buf_at(b, Len(b.vec) - 1)

\* *b.last_mut().unwrap() = x; there is no element to write to when count
\* is 0 or the storage is empty
buf_last_mut_write(b, x) ==
    IF b.count = 0 \/ Len(b.vec) = 0 THEN b
    ELSE IF b.size > 0
      THEN [b EXCEPT !.vec[((b.count - 1) % b.size) + 1] = x]
    ELSE [b EXCEPT !.vec[Len(b.vec)] = x]

buf_first(b) ==
    IF b.count = 0 THEN None
    ELSE IF b.size > 0
         THEN IF b.count <= b.size THEN buf_at(b, 0)
              ELSE buf_at(b, b.count % b.size)
    ELSE buf_at(b, 0)

buf_len(b) == IF b.count < b.size THEN b.count ELSE Len(b.vec)

buf_count(b) == b.count

buf_is_empty(b) == b.count = 0

buf_to_vec(b) ==
    IF b.size > 0
      THEN LET start == IF b.count <= b.size THEN 0 ELSE b.count % b.size
               n == min(b.size, b.count)
           IN  [k \in 1..n |-> b.vec[((start + k - 1) % b.size) + 1]]
      ELSE b.vec

\* ---- construction --------------------------------------------------------
\* faulty variant: the ring is allocated but not filled (Vec::with_capacity)
new_with_capacity(c) ==
    /\ size = c
    /\ vec = <<>>
    /\ last_removed = None
    /\ count = 0
    /\ capacity = c
    /\ pushed = <<>>
    /\ ret = NoRet
    /\ list = buf_new(0)

new(c) ==
    /\ size = c
    /\ vec = IF c > 0 THEN Filled(c) ELSE <<>>
    /\ last_removed = None
    /\ count = 0
    /\ capacity = c
    /\ pushed = <<>>
    /\ ret = NoRet
    /\ list = buf_new(0)

Init == \E c \in 0..MaxSize : new(c)

\* ---- faulty variants of push, for checking that the claims detect them ---
\* the slot is computed from count + 1 instead of count
push_off_by_one(value) ==
    /\ count < MaxCount
    /\ IF size > 0
         THEN LET index == (count + 1) % size IN
              /\ index < Len(vec)
              /\ last_removed' = Some(vec[index + 1])
              /\ vec' = [vec EXCEPT ![index + 1] = value]
         ELSE /\ vec' = Append(vec, value)
              /\ UNCHANGED last_removed
    /\ count' = count + 1
    /\ pushed' = Append(pushed, value)
    /\ ret' = NoRet
    /\ list' = buf_push(list, value)
    /\ UNCHANGED <<size, capacity>>

\* last_removed is recorded only once the ring is full
push_records_only_when_full(value) ==
    /\ count < MaxCount
    /\ IF size > 0
         THEN LET index == count % size IN
              /\ index < Len(vec)
              /\ last_removed' = IF count >= size THEN Some(vec[index + 1])
                                 ELSE last_removed
              /\ vec' = [vec EXCEPT ![index + 1] = value]
         ELSE /\ vec' = Append(vec, value)
              /\ UNCHANGED last_removed
    /\ count' = count + 1
    /\ pushed' = Append(pushed, value)
    /\ ret' = NoRet
    /\ list' = buf_push(list, value)
    /\ UNCHANGED <<size, capacity>>

\* the storage grows while the ring is filling, as if it started empty
push_grows_while_filling(value) ==
    /\ count < MaxCount
    /\ IF size > 0 /\ count >= size
         THEN LET index == count % size IN
              /\ index < Len(vec)
              /\ last_removed' = Some(vec[index + 1])
              /\ vec' = [vec EXCEPT ![index + 1] = value]
         ELSE /\ vec' = Append(vec, value)
              /\ UNCHANGED last_removed
    /\ count' = count + 1
    /\ pushed' = Append(pushed, value)
    /\ ret' = NoRet
    /\ list' = buf_push(list, value)
    /\ UNCHANGED <<size, capacity>>

\* ---- push ----------------------------------------------------------------
push(value) ==
    /\ count < MaxCount
    /\ IF size > 0
         THEN LET index == count % size IN
              /\ index < Len(vec)
              /\ last_removed' = Some(vec[index + 1])
              /\ vec' = [vec EXCEPT ![index + 1] = value]
         ELSE /\ vec' = Append(vec, value)
              /\ UNCHANGED last_removed
    /\ count' = count + 1
    /\ pushed' = Append(pushed, value)
    /\ ret' = NoRet
    /\ list' = buf_push(list, value)
    /\ UNCHANGED <<size, capacity>>

\* ---- queries -------------------------------------------------------------
\* faulty variant: the index is not reduced modulo size
get_unwrapped(i) ==
    IF i < Len(vec) THEN At(i) ELSE None

\* faulty variant: an index outside the retained window yields None
get_checks_window(i) ==
    IF size > 0
      THEN IF count - i > size THEN None ELSE At(i % size)
    ELSE IF i < Len(vec) THEN At(i)
    ELSE None

\* faulty variant: the bound of the unbounded branch is inclusive
get_inclusive_bound(i) ==
    IF size > 0 THEN At(i % size)
    ELSE IF i <= Len(vec) THEN At(i)
    ELSE None

get(i) ==
    IF size > 0 THEN At(i % size)
    ELSE IF i < Len(vec) THEN At(i)
    ELSE None

\* faulty variant: in bounded mode the slot of the next push is read
last_reads_next_slot ==
    IF count = 0 THEN None
    ELSE IF size > 0 THEN At(count % size)
    ELSE IF Len(vec) = 0 THEN Panic
    ELSE At(Len(vec) - 1)

last ==
    IF count = 0 THEN None
    ELSE IF size > 0 THEN At((count - 1) % size)
    ELSE IF Len(vec) = 0 THEN Panic
    ELSE At(Len(vec) - 1)

\* faulty variant: in bounded mode the slot of the next push is handed out
last_mut_index_next_slot ==
    IF count = 0 THEN -1
    ELSE IF size > 0 THEN count % size
    ELSE Len(vec) - 1

\* the slot last_mut() hands out; negative when there is none (count is 0,
\* or vec.len() - 1 underflows)
last_mut_index ==
    IF count = 0 THEN -1
    ELSE IF size > 0 THEN (count - 1) % size
    ELSE Len(vec) - 1

last_mut ==
    IF count = 0 THEN None
    ELSE IF last_mut_index < 0 THEN Panic
    ELSE At(last_mut_index)

\* faulty variant: the wrapped case is forgotten
first_always_slot_zero ==
    IF count = 0 THEN None ELSE At(0)

first ==
    IF count = 0 THEN None
    ELSE IF size > 0
         THEN IF count <= size THEN At(0) ELSE At(count % size)
    ELSE At(0)

\* faulty variant: the partly filled case is forgotten
len_is_storage_length == Len(vec)

len == IF count < size THEN count ELSE Len(vec)

fn_size == size

raw == vec

fn_last_removed == last_removed

fn_count == count

is_empty == count = 0

\* faulty variant: the walk starts at count % size even before the ring wraps
to_vec_starts_at_write_slot ==
    IF size > 0
      THEN LET start == count % size
               n == min(size, count)
           IN  [k \in 1..n |-> vec[((start + k - 1) % size) + 1]]
      ELSE vec

\* the slots the loop of to_vec indexes, in order: i % size for i in
\* start..start + min(size, count)
to_vec_slots ==
    IF size > 0
      THEN LET start == IF count <= size THEN 0 ELSE count % size
               n == min(size, count)
           IN  [k \in 1..n |-> (start + k - 1) % size]
      ELSE <<>>

to_vec ==
    IF size > 0
      THEN IF \A k \in DOMAIN to_vec_slots : to_vec_slots[k] < Len(vec)
             THEN [k \in DOMAIN to_vec_slots |-> vec[to_vec_slots[k] + 1]]
             ELSE <<Panic>>
      ELSE vec

\* ---- a write through the reference last_mut() returns --------------------
last_mut_write(x) ==
    /\ last_mut_index >= 0
    /\ last_mut_index < Len(vec)
    /\ vec' = [vec EXCEPT ![last_mut_index + 1] = x]
    /\ pushed' = [pushed EXCEPT ![Len(pushed)] = x]
    /\ ret' = NoRet
    /\ list' = buf_last_mut_write(list, x)
    /\ UNCHANGED <<size, last_removed, count, capacity>>

Next ==
    \/ \E value \in Values : push(value)
    \/ \E x \in Values : last_mut_write(x)

Spec == Init /\ [][Next]_vars

\* ---- calls of the queries ------------------------------------------------
\* every query takes &self: it assigns no field
Frame == UNCHANGED <<size, vec, last_removed, count, capacity, pushed, list>>

call_get(i) ==
    /\ count <= MaxQueryCount
    /\ get(i) # Panic
    /\ ret' = Returned("get", i, get(i))
    /\ Frame

call_first ==
    /\ count <= MaxQueryCount
    /\ first # Panic
    /\ ret' = Returned("first", 0, first)
    /\ Frame

call_last ==
    /\ count <= MaxQueryCount
    /\ last # Panic
    /\ ret' = Returned("last", 0, last)
    /\ Frame

call_len ==
    /\ count <= MaxQueryCount
    /\ ret' = Returned("len", 0, len)
    /\ Frame

call_size ==
    /\ count <= MaxQueryCount
    /\ ret' = Returned("size", 0, fn_size)
    /\ Frame

call_raw ==
    /\ count <= MaxQueryCount
    /\ ret' = Returned("raw", 0, raw)
    /\ Frame

\* faulty variant: the option is moved out (Option::take)
call_last_removed_takes ==
    /\ count <= MaxQueryCount
    /\ ret' = Returned("last_removed", 0, fn_last_removed)
    /\ last_removed' = None
    /\ UNCHANGED <<size, vec, count, capacity, pushed, list>>

call_last_removed ==
    /\ count <= MaxQueryCount
    /\ ret' = Returned("last_removed", 0, fn_last_removed)
    /\ Frame

call_count ==
    /\ count <= MaxQueryCount
    /\ ret' = Returned("count", 0, fn_count)
    /\ Frame

call_is_empty ==
    /\ count <= MaxQueryCount
    /\ ret' = Returned("is_empty", 0, is_empty)
    /\ Frame

call_to_vec ==
    /\ count <= MaxQueryCount
    /\ \A k \in DOMAIN to_vec_slots : to_vec_slots[k] < Len(vec)
    /\ ret' = Returned("to_vec", 0, to_vec)
    /\ Frame

Query ==
    \/ \E i \in Indices : call_get(i)
    \/ call_first
    \/ call_last
    \/ call_len
    \/ call_size
    \/ call_raw
    \/ call_last_removed
    \/ call_count
    \/ call_is_empty
    \/ call_to_vec

QueryNext == Next \/ Query

\* the buffer with its queries called between the mutations
QuerySpec == Init /\ [][QueryNext]_vars

\* ---- what the history says the buffer retains ----------------------------
\* number of pushes so far
N == Len(pushed)

\* the last min(N, c) pushed values, oldest first
Retained(c) == SubSeq(pushed, N - min(N, c) + 1, N)

\* ---- C1 ------------------------------------------------------------------
\* C1: in bounded mode to_vec() is exactly the last min(N, C) pushed values
\* in push order; a pre-filled default slot that was never pushed does not
\* appear in it.
C1_ToVecIsRetainedWindow ==
    capacity > 0 => to_vec = Retained(capacity)

\* a wrapped buffer whose window starts in the middle of the ring
C1_Witness ==
    /\ capacity = 3 /\ N = 5
    /\ pushed = <<1, 2, 0, 1, 2>>
    /\ to_vec = <<0, 1, 2>>
    /\ raw = <<1, 2, 0>>

\* ---- C2 ------------------------------------------------------------------
\* C2: in bounded mode, after N pushes count() is N, size() is the capacity
\* given to new() and len() is min(N, C); so size() never changes and
\* count() is not reduced by eviction.
C2_CountSizeLen ==
    capacity > 0 =>
        /\ fn_count = N
        /\ fn_size = capacity
        /\ len = min(N, capacity)

\* an overflowed ring: count() has passed size() and len() stopped at it
C2_Witness ==
    /\ capacity = 3 /\ N = 5
    /\ fn_count = 5 /\ fn_size = 3 /\ len = 3

\* ---- C3 ------------------------------------------------------------------
\* C3: in bounded mode, once more than C values were pushed, last_removed()
\* is v_{N-C}, the value the latest push displaced.
C3_LastRemovedIsDisplaced ==
    (capacity > 0 /\ N > capacity) =>
        fn_last_removed = Some(pushed[N - capacity])

\* two pushes past a full ring of 2: the second pushed value is reported
C3_Witness ==
    /\ capacity = 2
    /\ pushed = <<1, 2, 0, 1>>
    /\ fn_last_removed = Some(2)

\* ---- C4 ------------------------------------------------------------------
\* C4 as stated: in bounded mode last_removed() stays empty through the
\* first C pushes.
C4_EmptyWhileFilling ==
    (capacity > 0 /\ N <= capacity) => fn_last_removed = None

\* C4 as amended: in bounded mode last_removed() is empty exactly while
\* nothing has been pushed; the first push already sets it.
C4_EmptyOnlyBeforeFirstPush ==
    capacity > 0 => (fn_last_removed = None <=> N = 0)

\* one push into a ring of 3: last_removed is already set
C4_Witness ==
    /\ capacity = 3 /\ N = 1
    /\ fn_last_removed # None

\* ---- C5 ------------------------------------------------------------------
\* C5: in bounded mode, after the N-th push with 1 <= N <= C,
\* last_removed() is Some(T::default()), the displaced pre-fill value.
C5_DefaultWhileFilling ==
    (capacity > 0 /\ 1 <= N /\ N <= capacity) =>
        fn_last_removed = Some(Default)

\* test_rolling_data_underflow with non-default values pushed
C5_Witness ==
    /\ capacity = 3
    /\ pushed = <<1, 2>>
    /\ raw = <<1, 2, 0>>
    /\ fn_last_removed = Some(0)

\* ---- C6 ------------------------------------------------------------------
\* C6: in either mode first() and last() are None before any push; after N
\* pushes last() is v_N and first() is the oldest retained value: v_1 when
\* the capacity is 0 or N <= C, v_{N-C+1} when N > C > 0.
C6_FirstAndLast ==
    /\ N = 0 => (first = None /\ last = None)
    /\ N >= 1 =>
        /\ last = Some(pushed[N])
        /\ first = Some(pushed[IF capacity = 0 \/ N <= capacity
                                 THEN 1 ELSE N - capacity + 1])

\* a wrapped ring of 3 after 5 pushes: first() is the third value pushed
C6_Witness ==
    /\ capacity = 3
    /\ pushed = <<1, 2, 0, 1, 2>>
    /\ first = Some(0)
    /\ last = Some(2)

\* ---- C7 ------------------------------------------------------------------
\* C7: in bounded mode get(i) of a logical index that is still retained
\* (i < N and N - i <= C) is the value pushed at that index.
C7_GetRetained ==
    capacity > 0 =>
        \A i \in Indices :
            (i < N /\ N - i <= capacity) => get(i) = Some(pushed[i + 1])

\* a retained index beyond the first lap of the ring
C7_Witness ==
    /\ capacity = 2
    /\ pushed = <<1, 1, 1, 2>>
    /\ get(3) = Some(2)
    /\ get(2) = Some(1)

\* ---- C8 ------------------------------------------------------------------
\* C8: in bounded mode get(i) is None for every index whose element has
\* been overwritten, i.e. count() - i > size().
C8_OverwrittenIsNone ==
    capacity > 0 =>
        \A i \in Indices : (fn_count - i > fn_size) => get(i) = None

\* ---- C9 ------------------------------------------------------------------
\* the newest logical index pushed so far that shares the slot of index i
Newest(i) ==
    CHOOSE j \in 0..(N - 1) :
        /\ j % capacity = i % capacity
        /\ \A k \in 0..(N - 1) : k % capacity = i % capacity => k <= j

C10_UnboundedIsList ==
    capacity = 0 =>
        /\ to_vec = pushed
        /\ raw = pushed
        /\ len = N
        /\ fn_count = N
        /\ fn_size = 0
        /\ \A i \in Indices :
               get(i) = IF i < N THEN Some(pushed[i + 1]) ELSE None
        /\ fn_last_removed = None

\* test_size_0 with values of the model
C10_Witness ==
    /\ capacity = 0
    /\ pushed = <<1, 2, 0, 1, 2>>
    /\ to_vec = <<1, 2, 0, 1, 2>>
    /\ get(4) = Some(2)
    /\ get(5) = None

\* ---- C11 -----------------------------------------------------------------
\* C11: no operation panics in any reachable state: push and every query
\* (get for any index, first, last, last_mut, to_vec) index vec only below
\* raw().len(), take a remainder only by a non-zero size and never subtract
\* below zero.  len, size, count, is_empty, raw and last_removed index
\* nothing.
C11_NoPanic ==
    /\ size > 0 => count % size < Len(raw)
    /\ \A i \in Indices : get(i) # Panic
    /\ first # Panic
    /\ last # Panic
    /\ last_mut # Panic
    /\ \A k \in DOMAIN to_vec_slots : to_vec_slots[k] < Len(raw)

\* a wrapped ring: the walk of to_vec crosses the end of the storage and
\* get is asked for an index far beyond count()
C11_Witness ==
    /\ capacity = 3 /\ N = 4
    /\ to_vec_slots = <<1, 2, 0>>
    /\ get(8) # Panic
    /\ last_mut # None

\* ---- C12 -----------------------------------------------------------------
\* C12: a call of get, first, last, len, size, count, is_empty, raw,
\* last_removed or to_vec leaves size, vec, last_removed and count as they
\* were, and a query called again with no mutation in between returns what
\* it returned before.  A step is a call of a query exactly when it leaves
\* a result in ret.
C12_QueriesReadOnly ==
    [][ret'.op # "none" =>
         /\ UNCHANGED <<size, vec, last_removed, count>>
         /\ (ret.op = ret'.op /\ ret.arg = ret'.arg) => ret'.val = ret.val
      ]_vars

\* to_vec was called on a wrapped ring that still holds a displaced value
C12_Witness ==
    /\ capacity = 2
    /\ pushed = <<1, 2, 0>>
    /\ last_removed = Some(1)
    /\ ret.op = "to_vec"
    /\ ret.val = <<2, 0>>

\* ---- C13 -----------------------------------------------------------------
\* C13: in bounded mode raw() is the ring layout: slot s holds the most
\* recently pushed value whose logical index is s modulo C, or T::default()
\* if no such value was pushed yet.
C13_RawIsRingLayout ==
    capacity > 0 =>
        raw = [k \in 1..capacity |->
                  IF k - 1 < N THEN pushed[Newest(k - 1) + 1] ELSE Default]

\* a ring of 3 on its second lap: slots 0 and 1 rewritten, slot 2 not yet
C13_Witness ==
    /\ capacity = 3
    /\ pushed = <<1, 1, 2, 2, 0>>
    /\ raw = <<2, 0, 2>>

\* ---- C14 -----------------------------------------------------------------
\* C14: in bounded mode the storage always has exactly C slots, all of them
\* T::default() right after new(C); pushes and writes through last_mut
\* neither grow nor shrink it.
C14_StorageLengthIsCapacity ==
    capacity > 0 =>
        /\ Len(raw) = capacity
        /\ N = 0 => \A k \in 1..capacity : raw[k] = Default

\* a ring of 2 after more pushes than two laps
C14_Witness ==
    /\ capacity = 2
    /\ N = 5
    /\ Len(raw) = 2

\* ---- C15 -----------------------------------------------------------------
\* C15: a push (the step that extends the history by one value) made at
\* count() = n adds exactly 1 to count() and keeps size(); in bounded mode
\* it sets slot n mod C to the pushed value, leaves every other slot alone
\* and sets last_removed to what that slot held.  No step lowers count().
C15_PushFrame ==
    [][/\ count' >= count
       /\ N' = N + 1 =>
            /\ count' = count + 1
            /\ size' = size
            /\ capacity > 0 =>
                 /\ raw' = [raw EXCEPT ![(count % capacity) + 1] = pushed'[N']]
                 /\ last_removed' = Some(raw[(count % capacity) + 1])
      ]_vars

\* the fourth push into a ring of 3 replaced slot 0 and reported its value
C15_Witness ==
    /\ capacity = 3
    /\ pushed = <<1, 0, 0, 2>>
    /\ raw = <<2, 0, 0>>
    /\ last_removed = Some(1)
    /\ count = 4

\* ---- C16 -----------------------------------------------------------------
\* C16: last_mut() is None exactly when count() is 0 and otherwise refers to
\* the element last() refers to.  A write of x through it (the step that
\* rewrites the history without extending it) makes last() and the final
\* element of to_vec() equal to x and leaves the other retained elements,
\* count(), len(), size() and last_removed() as they were.
C16_LastMut ==
    /\ [](/\ last_mut = None <=> fn_count = 0
          /\ last_mut = last)
    /\ [][(N' = N /\ pushed' # pushed) =>
            /\ last' = Some(pushed'[N'])
            /\ Len(to_vec') = Len(to_vec)
            /\ to_vec'[Len(to_vec')] = pushed'[N']
            /\ \A k \in 1..(Len(to_vec) - 1) : to_vec'[k] = to_vec[k]
            /\ fn_count' = fn_count
            /\ len' = len
            /\ fn_size' = fn_size
            /\ fn_last_removed' = fn_last_removed
         ]_vars

\* a wrapped ring of 2 as a write of 2 over a newest element 1 leaves it:
\* the displaced value and the older retained element are what was pushed
C16_Witness ==
    /\ capacity = 2
    /\ pushed = <<1, 0, 2>>
    /\ raw = <<2, 0>>
    /\ last_removed = Some(1)
    /\ last_mut = Some(2)

\* ---- C17 -----------------------------------------------------------------
\* C17: in every reachable state of either mode the queries agree: len() is
\* the length of to_vec(); is_empty(), count() = 0, len() = 0, first() is
\* None and last() is None all hold together or not at all; and when
\* count() > 0, first() and last() are the first and the final element of
\* to_vec().
C17_QueriesAgree ==
    /\ len = Len(to_vec)
    /\ is_empty <=> fn_count = 0
    /\ fn_count = 0 <=> len = 0
    /\ fn_count = 0 <=> first = None
    /\ fn_count = 0 <=> last = None
    /\ fn_count > 0 =>
         /\ first = Some(to_vec[1])
         /\ last = Some(to_vec[Len(to_vec)])

\* a wrapped ring of 3 whose window neither starts nor ends at slot 0
C17_Witness ==
    /\ capacity = 3
    /\ raw = <<2, 0, 1>>
    /\ N = 5
    /\ first = Some(1)
    /\ last = Some(0)
    /\ len = 3

\* ---- C18 -----------------------------------------------------------------
\* C18: while a bounded buffer has not overflowed (N <= C), it and the
\* buffer made by new(0) from the same pushes return equal to_vec(),
\* first(), last(), len(), count(), is_empty() and get(i) for every i < N.
C18_BoundedMatchesListUntilFull ==
    (capacity > 0 /\ N <= capacity) =>
        /\ to_vec = buf_to_vec(list)
        /\ first = buf_first(list)
        /\ last = buf_last(list)
        /\ len = buf_len(list)
        /\ fn_count = buf_count(list)
        /\ is_empty = buf_is_empty(list)
        /\ \A i \in Indices : i < N => get(i) = buf_get(list, i)

\* a ring of 3 holding two values next to the list holding the same two:
\* the storage and last_removed differ, the listed queries do not
C18_Witness ==
    /\ capacity = 3
    /\ pushed = <<2, 1>>
    /\ raw = <<2, 1, 0>>
    /\ list.vec = <<2, 1>>
    /\ list.size = 0
    /\ fn_last_removed # list.last_removed
    /\ to_vec = buf_to_vec(list)

====
